---------------------------- MODULE Spec2Model ----------------------------
(***************************************************************************)
(* The interactive map viewport of cs-nades: KonvaMap.tsx (pan/zoom,       *)
(* placement, marker drag, mode dispatch), useDrawing.ts (freehand stroke  *)
(* capture) and the toolbar of MapPage.tsx that drives them.               *)
(*                                                                         *)
(* JavaScript numbers are modelled as exact rationals <<n, d>> in lowest   *)
(* terms with d > 0, so rounding error of IEEE doubles is abstracted away  *)
(* and "equal" below means equal as real numbers.                          *)
(***************************************************************************)
EXTENDS Integers, Sequences, FiniteSets, Bags, TLC

(***************************************************************************)
(* Exact rational arithmetic.                                              *)
(***************************************************************************)
Abs(i) == IF i < 0 THEN -i ELSE i

RECURSIVE GCD(_, _)
GCD(a, b) == IF b = 0 THEN a ELSE GCD(b, a % b)

\* the rational n/d in lowest terms (d # 0)
Rat(n, d) ==
    LET g == GCD(Abs(n), Abs(d))
        s == IF d < 0 THEN -1 ELSE 1
    IN  <<(s * n) \div g, (s * d) \div g>>

RInt(i) == <<i, 1>>
RZero == <<0, 1>>

RNeg(a) == <<-a[1], a[2]>>

RAdd(a, b) ==
    LET g == GCD(a[2], b[2])
        l == (a[2] \div g) * b[2]
    IN  Rat(a[1] * (l \div a[2]) + b[1] * (l \div b[2]), l)

RSub(a, b) == RAdd(a, RNeg(b))

RMul(a, b) ==
    LET g1 == GCD(Abs(a[1]), b[2])
        g2 == GCD(Abs(b[1]), a[2])
    IN  <<(a[1] \div g1) * (b[1] \div g2), (a[2] \div g2) * (b[2] \div g1)>>

\* 1/a for a # 0
RInv(a) == IF a[1] > 0 THEN <<a[2], a[1]>> ELSE <<-a[2], -a[1]>>

RDiv(a, b) == RMul(a, RInv(b))

RLt(a, b) ==
    LET g == GCD(a[2], b[2])
    IN  a[1] * (b[2] \div g) < b[1] * (a[2] \div g)

RLe(a, b) == ~RLt(b, a)

\* Math.max and Math.min
RMax(a, b) == IF RLt(a, b) THEN b ELSE a
RMin(a, b) == IF RLt(b, a) THEN b ELSE a

\* the greatest integer <= a
RFloor(a) == a[1] \div a[2]

\* Math.round: the nearest integer, halves rounded towards +infinity
RRound(a) == RFloor(RAdd(a, <<1, 2>>))

\* a point {x, y}
Pt(x, y) == [x |-> x, y |-> y]
IPt(i, j) == Pt(RInt(i), RInt(j))

(***************************************************************************)
(* Props of KonvaMap.  A configuration is one choice of the display size   *)
(* and zoom limits the component is mounted with.                          *)
(***************************************************************************)
Cfg(w, h, n, zmin, zmax, g) ==
    [width |-> w, height |-> h, nativeSize |-> n, minZoom |-> zmin,
     maxZoom |-> zmax, gridSize |-> g]

\* the configuration MapPage mounts at its largest stage size
Deployed == Cfg(900, 900, 1200, RInt(1), RInt(4), 20)

\* other mounts: a frame taller than the map's base size (vertical
\* centring), a low maxZoom (upper zoom clamp within a few wheel steps), and
\* a minZoom above the mounted zoom factor
Configs ==
    { Deployed,
      Cfg(900, 1000, 1200, RInt(1), RInt(4), 20),
      Cfg(900, 900, 1200, RInt(1), <<11, 10>>, 20),
      Cfg(900, 900, 1200, <<21, 20>>, <<11, 10>>, 20) }

Modes == {"browse", "place", "edit", "draw"}
NadeTypes == {"smoke", "flash", "molotov", "he"}

NoPointer == [none |-> TRUE]
NoStroke == [none |-> TRUE]
NoEmit == [cb |-> "none"]
NoDrag == 0
\* the background images the host can ask for, named by their URL
Urls == {"/maps/a.png", "/maps/b.png"}
NoImage == "null"
NoError == "null"

VARIABLES
    cfg,            \* the props width, height, nativeSize, minZoom, maxZoom, gridSize
    mode,           \* MapPage: mode
    placementType,  \* MapPage: placementType
    snap,           \* MapPage: snap (prop snapToGrid)
    zoomFactor,     \* KonvaMap: zoomFactor
    stagePos,       \* KonvaMap: stagePos
    strokes,        \* useMapData: strokes, the finalized stroke collection
    isDrawing,      \* useDrawing: isDrawing
    liveStroke,     \* useDrawing: liveStroke
    current,        \* useDrawing: currentStrokeRef.current
    dragging,       \* the marker the rendering library is dragging, or NoDrag
    emitted,        \* the host callback the last handler invoked, or NoEmit
    nextId,         \* strokes started so far; the next stroke's fresh identity
    nWheel,         \* wheel events handled so far
    nAppended,      \* points accepted by appendPoint since the last startStroke
    nEvents,        \* events handled so far
    mapImageUrl,    \* the prop mapImageUrl
    img,            \* useImage: img, named by the URL it was loaded from, or NoImage
    error,          \* useImage: error, named by the URL that failed, or NoError
    pending,        \* the bag of URLs of Image objects that have not fired yet
    map,            \* useMapData: the map key the hook is called with
    spots,          \* useMapData: spots, the local spot list
    loading,        \* useMapData: loading
    dataError,      \* useMapData: error
    requests,       \* persistence calls in flight, in the order they were issued
    db,             \* the persistence service's tables nade_spots and map_drawings
    lastMove        \* per marker, the position of the move requested last,
                    \* or NoMove when there is none or a move of it has failed

imageVars == <<mapImageUrl, img, error, pending>>

dataVars == <<map, spots, loading, dataError, requests, db, lastMove>>

vars == <<cfg, mode, placementType, snap, zoomFactor, stagePos, strokes,
          isDrawing, liveStroke, current, dragging, emitted, nextId, nWheel,
          nAppended, nEvents, imageVars, dataVars>>

(***************************************************************************)
(* KonvaMap.tsx: scale, clamping, coordinate transform.                    *)
(***************************************************************************)
\* scaleBy = 1.08
ScaleBy == <<27, 25>>

Clamp(n, min, max) == RMax(min, RMin(max, n))

BaseScale == Rat(cfg.width, cfg.nativeSize)

ScaleAt(zoom) == RMul(BaseScale, zoom)

StageScale == ScaleAt(zoomFactor)

\* variant: the map is never centred
MinOffsetNoCentre(size, mapPx) == RSub(RInt(size), mapPx)

\* the least and greatest offset clampStagePos allows on an axis of length
\* size for a map of mapPx pixels
MinOffset(size, mapPx) ==
    IF RLe(RInt(size), mapPx)
    THEN RSub(RInt(size), mapPx)
    ELSE RDiv(RSub(RInt(size), mapPx), RInt(2))

MaxOffset(size, mapPx) ==
    IF RLe(RInt(size), mapPx)
    THEN RZero
    ELSE RDiv(RSub(RInt(size), mapPx), RInt(2))

\* variant: each axis is clamped from the other axis's coordinate
ClampStagePosSwapped(pos, scale) ==
    LET mapPx == RMul(RInt(cfg.nativeSize), scale)
    IN  Pt(Clamp(pos.y, MinOffset(cfg.width, mapPx), MaxOffset(cfg.width, mapPx)),
           Clamp(pos.x, MinOffset(cfg.height, mapPx), MaxOffset(cfg.height, mapPx)))

ClampStagePos(pos, scale) ==
    LET mapPx == RMul(RInt(cfg.nativeSize), scale)
    IN  Pt(Clamp(pos.x, MinOffset(cfg.width, mapPx), MaxOffset(cfg.width, mapPx)),
           Clamp(pos.y, MinOffset(cfg.height, mapPx), MaxOffset(cfg.height, mapPx)))

\* variant: the stage offset is not subtracted
NativeOfNoOffset(pointer, pos, scale) ==
    Pt(RDiv(pointer.x, scale), RDiv(pointer.y, scale))

NativeOf(pointer, pos, scale) ==
    Pt(RDiv(RSub(pointer.x, pos.x), scale), RDiv(RSub(pointer.y, pos.y), scale))

ToNative(pointer) == NativeOf(pointer, stagePos, StageScale)


\* variant: only the upper bound is checked
InBoundsUpperOnly(p) ==
    /\ RLe(p.x, RInt(cfg.nativeSize)) /\ RLe(p.y, RInt(cfg.nativeSize))

InBounds(p) ==
    /\ RLe(RZero, p.x) /\ RLe(RZero, p.y)
    /\ RLe(p.x, RInt(cfg.nativeSize)) /\ RLe(p.y, RInt(cfg.nativeSize))

\* variant: rounds down
SnapValueFloor(v, grid) == RInt(RFloor(RDiv(v, RInt(grid))) * grid)

\* snapValue
SnapValue(v, grid) == RInt(RRound(RDiv(v, RInt(grid))) * grid)

(***************************************************************************)
(* Bounds of the model and the inputs the events are drawn from.           *)
(***************************************************************************)
MaxWheel == 2       \* wheel events per behaviour
MaxPoints == 3      \* raw points per stroke
MaxStrokes == 2     \* strokes started per behaviour
NumSpots == 1       \* markers rendered
MaxEvents == 5      \* events per behaviour of the whole component

SpotIds == 1 .. NumSpots

\* event.deltaY of a wheel event
DeltaYs == {-100, 0, 100}

\* the topmost shape under the pointer: the "map" image (it covers the "bg"
\* rect), a marker's shape (no name), or the stage itself (no name)
Targets == {"map", "marker", "stage"}
TargetName(t) == IF t \in {"bg", "map"} THEN t ELSE ""

(***************************************************************************)
(* MapPage.tsx toolbar.                                                    *)
(***************************************************************************)
\* A marker drag is owned by the rendering library.  When a re-render makes
\* the marker non-draggable in the middle of a drag, the library ends the
\* drag: depending on the order in which it rebinds listeners and applies
\* draggable, onDragEnd is not called at all (the drag is dropped), or the
\* re-rendered onDragEnd, closed over the new mode, is called (the drag
\* stays pending for MarkerDragEnd).
SetMode(m) ==
    /\ mode' = m
    /\ dragging' \in IF m = "edit" THEN {dragging} ELSE {dragging, NoDrag}
    /\ emitted' = NoEmit
    /\ UNCHANGED <<cfg, placementType, snap, zoomFactor, stagePos, strokes,
                   isDrawing, liveStroke, current, nextId, nWheel, nAppended>>

SetPlacementType(t) ==
    /\ placementType' = t
    /\ emitted' = NoEmit
    /\ UNCHANGED <<cfg, mode, snap, zoomFactor, stagePos, strokes, isDrawing,
                   liveStroke, current, dragging, nextId, nWheel, nAppended>>

SetSnap(b) ==
    /\ snap' = b
    /\ emitted' = NoEmit
    /\ UNCHANGED <<cfg, mode, placementType, zoomFactor, stagePos, strokes,
                   isDrawing, liveStroke, current, dragging, nextId, nWheel,
                   nAppended>>

\* variant: drops the oldest stroke
UndoFirst ==
    /\ strokes' = SubSeq(strokes, 2, Len(strokes))
    /\ emitted' = NoEmit
    /\ UNCHANGED <<cfg, mode, placementType, snap, zoomFactor, stagePos,
                   isDrawing, liveStroke, current, dragging, nextId, nWheel,
                   nAppended>>

\* The Undo and Clear buttons.  pointer-events-none keeps the mouse off them
\* outside draw mode, but not the keyboard, so they act in every mode.
\* Undo: setStrokes(strokes.slice(0, -1))
Undo ==
    /\ strokes' = SubSeq(strokes, 1, Len(strokes) - 1)
    /\ emitted' = NoEmit
    /\ UNCHANGED <<cfg, mode, placementType, snap, zoomFactor, stagePos,
                   isDrawing, liveStroke, current, dragging, nextId, nWheel,
                   nAppended>>

\* Clear: setStrokes([])
Clear ==
    /\ strokes' = <<>>
    /\ emitted' = NoEmit
    /\ UNCHANGED <<cfg, mode, placementType, snap, zoomFactor, stagePos,
                   isDrawing, liveStroke, current, dragging, nextId, nWheel,
                   nAppended>>

(***************************************************************************)
(* KonvaMap.tsx: the viewport controller.                                  *)
(***************************************************************************)
\* variant: the stepped factor is not clamped to the zoom limits
NextZoomUnclamped(deltaY) ==
    IF deltaY > 0 THEN RDiv(zoomFactor, ScaleBy) ELSE RMul(zoomFactor, ScaleBy)

\* the zoom factor handleWheel moves to
NextZoom(deltaY) ==
    Clamp(IF deltaY > 0 THEN RDiv(zoomFactor, ScaleBy) ELSE RMul(zoomFactor, ScaleBy),
          cfg.minZoom, cfg.maxZoom)

\* variant: the point under the pointer is taken at the new scale
WheelPosNewScale(pointer, deltaY) ==
    LET newScale == ScaleAt(NextZoom(deltaY))
        mousePointTo == NativeOf(pointer, stagePos, newScale)
    IN  Pt(RSub(pointer.x, RMul(mousePointTo.x, newScale)),
           RSub(pointer.y, RMul(mousePointTo.y, newScale)))

\* newPos of handleWheel, before clamping
WheelPos(pointer, deltaY) ==
    LET mousePointTo == NativeOf(pointer, stagePos, StageScale)
        newScale == ScaleAt(NextZoom(deltaY))
    IN  Pt(RSub(pointer.x, RMul(mousePointTo.x, newScale)),
           RSub(pointer.y, RMul(mousePointTo.y, newScale)))

\* variant: the new offset is clamped for the old scale
HandleWheelOldClamp(pointer, deltaY) ==
    /\ nWheel < MaxWheel
    /\ nWheel' = nWheel + 1
    /\ IF pointer = NoPointer
       THEN UNCHANGED <<zoomFactor, stagePos>>
       ELSE /\ zoomFactor' = NextZoom(deltaY)
            /\ stagePos' = ClampStagePos(WheelPos(pointer, deltaY), StageScale)
    /\ emitted' = NoEmit
    /\ UNCHANGED <<cfg, mode, placementType, snap, strokes, isDrawing,
                   liveStroke, current, dragging, nextId, nAppended>>

\* variant: a missing pointer position is taken to be the stage origin
HandleWheelNoPointerCheck(pointer, deltaY) ==
    LET at == IF pointer = NoPointer THEN IPt(0, 0) ELSE pointer
    IN  /\ nWheel < MaxWheel
        /\ nWheel' = nWheel + 1
        /\ zoomFactor' = NextZoom(deltaY)
        /\ stagePos' = ClampStagePos(WheelPos(at, deltaY),
                                     ScaleAt(NextZoom(deltaY)))
        /\ emitted' = NoEmit
        /\ UNCHANGED <<cfg, mode, placementType, snap, strokes, isDrawing,
                       liveStroke, current, dragging, nextId, nAppended>>

\* variant: a wheel event ends the capture in progress
HandleWheelEndsCapture(pointer, deltaY) ==
    /\ nWheel < MaxWheel
    /\ nWheel' = nWheel + 1
    /\ IF pointer = NoPointer
       THEN UNCHANGED <<zoomFactor, stagePos>>
       ELSE /\ zoomFactor' = NextZoom(deltaY)
            /\ stagePos' = ClampStagePos(WheelPos(pointer, deltaY),
                                         ScaleAt(NextZoom(deltaY)))
    /\ emitted' = NoEmit
    /\ isDrawing' = FALSE
    /\ liveStroke' = NoStroke
    /\ UNCHANGED <<cfg, mode, placementType, snap, strokes, current,
                   dragging, nextId, nAppended>>

HandleWheel(pointer, deltaY) ==
    /\ nWheel < MaxWheel
    /\ nWheel' = nWheel + 1
    /\ IF pointer = NoPointer
       THEN UNCHANGED <<zoomFactor, stagePos>>
       ELSE /\ zoomFactor' = NextZoom(deltaY)
            /\ stagePos' = ClampStagePos(WheelPos(pointer, deltaY),
                                         ScaleAt(NextZoom(deltaY)))
    /\ emitted' = NoEmit
    /\ UNCHANGED <<cfg, mode, placementType, snap, strokes, isDrawing,
                   liveStroke, current, dragging, nextId, nAppended>>

\* onDragMove of the stage: pos is where the library has dragged the stage to;
\* the handler itself never looks at the mode
HandleDragMove(pos) ==
    /\ stagePos' = ClampStagePos(pos, StageScale)
    /\ emitted' = NoEmit
    /\ UNCHANGED <<cfg, mode, placementType, snap, zoomFactor, strokes,
                   isDrawing, liveStroke, current, dragging, nextId, nWheel,
                   nAppended>>

\* variant: a stage that is draggable in every mode
StageDragAnyMode(pos) == HandleDragMove(pos)

\* a drag gesture on the stage: the stage is draggable in browse and edit
\* mode only, so elsewhere the library starts no drag and onDragMove is never
\* called (the pointer events of the gesture are HandlePointerDownEvent,
\* HandlePointerMoveEvent and HandlePointerUpEvent)
StageDrag(pos) ==
    IF mode \in {"browse", "edit"}
    THEN HandleDragMove(pos)
    ELSE /\ emitted' = NoEmit
         /\ UNCHANGED <<cfg, mode, placementType, snap, zoomFactor, stagePos,
                        strokes, isDrawing, liveStroke, current, dragging,
                        nextId, nWheel, nAppended>>

\* variant: the zoom factor is kept
ResetViewKeepsZoom ==
    /\ stagePos' = ClampStagePos(Pt(RZero, RZero), BaseScale)
    /\ emitted' = NoEmit
    /\ UNCHANGED <<cfg, mode, placementType, snap, zoomFactor, strokes,
                   isDrawing, liveStroke, current, dragging, nextId, nWheel,
                   nAppended>>

ResetView ==
    /\ zoomFactor' = RInt(1)
    /\ stagePos' = ClampStagePos(Pt(RZero, RZero), BaseScale)
    /\ emitted' = NoEmit
    /\ UNCHANGED <<cfg, mode, placementType, snap, strokes, isDrawing,
                   liveStroke, current, dragging, nextId, nWheel, nAppended>>

\* the host renders the component with a new width and height: the centring
\* effect runs again, for the new frame and the new base scale, and leaves
\* zoomFactor alone
Resize(w, h) ==
    /\ <<w, h>> # <<cfg.width, cfg.height>>
    /\ cfg' = [cfg EXCEPT !.width = w, !.height = h]
    /\ LET mapPx == RMul(RInt(cfg.nativeSize), Rat(w, cfg.nativeSize))
       IN  stagePos' = Pt(Clamp(RZero, MinOffset(w, mapPx), MaxOffset(w, mapPx)),
                          Clamp(RZero, MinOffset(h, mapPx), MaxOffset(h, mapPx)))
    /\ emitted' = NoEmit
    /\ UNCHANGED <<mode, placementType, snap, zoomFactor, strokes, isDrawing,
                   liveStroke, current, dragging, nextId, nWheel, nAppended>>

(***************************************************************************)
(* useDrawing.ts: the stroke capture engine.                               *)
(***************************************************************************)
MinPointDistance == 2
SmoothingWindow == 3

\* the flattened coordinates [x1, y1, x2, y2, ...] hold this many pairs
Pairs(points) == Len(points) \div 2

\* variant: only the first coordinate is kept
StrokeFirstCoordinate(id, points) ==
    [id |-> id, tool |-> "pen", width |-> 4, points |-> <<points[1]>>]

Stroke(id, points) == [id |-> id, tool |-> "pen", width |-> 4, points |-> points]

RAbs(a) == <<Abs(a[1]), a[2]>>

\* Math.hypot(dx, dy) < minPointDistance, as dx^2 + dy^2 < minPointDistance^2;
\* a leg that already reaches the threshold settles it without squaring
TooClose(p, lastX, lastY) ==
    LET dx == RAbs(RSub(p.x, lastX))
        dy == RAbs(RSub(p.y, lastY))
    IN  /\ RLt(dx, RInt(MinPointDistance))
        /\ RLt(dy, RInt(MinPointDistance))
        /\ RLt(RAdd(RMul(dx, dx), RMul(dy, dy)),
               RInt(MinPointDistance * MinPointDistance))

\* variant: the distance is measured from the last smoothed point
LastSmoothed(cur) ==
    Pt(cur.stroke.points[Len(cur.stroke.points) - 1],
       cur.stroke.points[Len(cur.stroke.points)])

\* the point appendPoint measures the decimation distance from
LastRecorded(cur) ==
    Pt(cur.rawPoints[Len(cur.rawPoints) - 1], cur.rawPoints[Len(cur.rawPoints)])

RECURSIVE SumAt(_, _, _)
\* raw[idx] + raw[idx - 2] + ... over count terms
SumAt(raw, idx, count) ==
    IF count = 0 THEN RZero
    ELSE RAdd(raw[idx], SumAt(raw, idx - 2, count - 1))

\* variant: a window of two points
SmoothWindowTwo(nextRaw) ==
    LET pairs == Pairs(nextRaw)
        windowCount == IF 2 < pairs THEN 2 ELSE pairs
    IN  Pt(RDiv(SumAt(nextRaw, Len(nextRaw) - 1, windowCount), RInt(windowCount)),
           RDiv(SumAt(nextRaw, Len(nextRaw), windowCount), RInt(windowCount)))

\* the smoothed point for the last pair of nextRaw
Smooth(nextRaw) ==
    LET pairs == Pairs(nextRaw)
        windowCount == IF SmoothingWindow < pairs THEN SmoothingWindow ELSE pairs
    IN  Pt(RDiv(SumAt(nextRaw, Len(nextRaw) - 1, windowCount), RInt(windowCount)),
           RDiv(SumAt(nextRaw, Len(nextRaw), windowCount), RInt(windowCount)))

\* variant: every stroke gets the same identity
StartStrokeSameId(pointer) ==
    IF pointer = NoPointer \/ ~InBounds(ToNative(pointer))
    THEN UNCHANGED <<isDrawing, current, liveStroke, nextId, nAppended>>
    ELSE LET p == ToNative(pointer)
             next == Stroke(1, <<p.x, p.y>>)
         IN  /\ nextId <= MaxStrokes
             /\ isDrawing' = TRUE
             /\ current' = [stroke |-> next, rawPoints |-> <<p.x, p.y>>]
             /\ liveStroke' = next
             /\ nextId' = nextId + 1
             /\ nAppended' = 0

\* variant: the stroke starts with no point recorded
StartStrokeNoPoint(pointer) ==
    IF pointer = NoPointer \/ ~InBounds(ToNative(pointer))
    THEN UNCHANGED <<isDrawing, current, liveStroke, nextId, nAppended>>
    ELSE LET p == ToNative(pointer)
             next == Stroke(nextId, <<>>)
         IN  /\ nextId <= MaxStrokes
             /\ isDrawing' = TRUE
             /\ current' = [stroke |-> next, rawPoints |-> <<p.x, p.y>>]
             /\ liveStroke' = next
             /\ nextId' = nextId + 1
             /\ nAppended' = 0

StartStroke(pointer) ==
    IF pointer = NoPointer \/ ~InBounds(ToNative(pointer))
    THEN UNCHANGED <<isDrawing, current, liveStroke, nextId, nAppended>>
    ELSE LET p == ToNative(pointer)
             next == Stroke(nextId, <<p.x, p.y>>)
         IN  /\ nextId <= MaxStrokes
             /\ isDrawing' = TRUE
             /\ current' = [stroke |-> next, rawPoints |-> <<p.x, p.y>>]
             /\ liveStroke' = next
             /\ nextId' = nextId + 1
             /\ nAppended' = 0

\* appendPoint accepts the pointer: it is in bounds, a stroke is current and
\* the point is not decimated
Accepts(pointer) ==
    /\ pointer # NoPointer
    /\ InBounds(ToNative(pointer))
    /\ current # NoStroke
    /\ ~TooClose(ToNative(pointer), LastRecorded(current).x, LastRecorded(current).y)

AppendPoint(pointer) ==
    IF ~Accepts(pointer)
    THEN UNCHANGED <<current, liveStroke, nAppended>>
    ELSE LET p == ToNative(pointer)
             nextRaw == current.rawPoints \o <<p.x, p.y>>
             sm == Smooth(nextRaw)
             nextStroke == [current.stroke EXCEPT
                              !.points = current.stroke.points \o <<sm.x, sm.y>>]
         IN  /\ Pairs(current.rawPoints) < MaxPoints
             /\ current' = [stroke |-> nextStroke, rawPoints |-> nextRaw]
             /\ liveStroke' = nextStroke
             /\ nAppended' = nAppended + 1

\* variant: currentStrokeRef is not cleared
FinishStrokeKeepsRef ==
    /\ isDrawing' = FALSE
    /\ strokes' = IF current # NoStroke THEN Append(strokes, current.stroke)
                  ELSE strokes
    /\ current' = current
    /\ liveStroke' = NoStroke
    /\ nAppended' = 0

FinishStroke ==
    /\ isDrawing' = FALSE
    /\ strokes' = IF current # NoStroke THEN Append(strokes, current.stroke)
                  ELSE strokes
    /\ current' = NoStroke
    /\ liveStroke' = NoStroke
    /\ nAppended' = 0

(***************************************************************************)
(* KonvaMap.tsx: the stage's pointer handlers.                             *)
(***************************************************************************)
\* the payload handlePointerDownEvent hands to onPlaceSpot
PlacePayload(pointer) ==
    [cb |-> "onPlaceSpot", x |-> ToNative(pointer).x, y |-> ToNative(pointer).y,
     type |-> placementType]

\* variant: the click is not checked against the image bounds
PlacesAnywhere(pointer, target) ==
    /\ pointer # NoPointer
    /\ TargetName(target) # ""

\* place mode: the click lands on a named shape and inside the image
Places(pointer, target) ==
    /\ pointer # NoPointer
    /\ TargetName(target) # ""
    /\ InBounds(ToNative(pointer))

HandlePointerDownEvent(pointer, target) ==
    /\ IF pointer # NoPointer /\ mode = "draw"
       THEN StartStroke(pointer)
       ELSE UNCHANGED <<isDrawing, current, liveStroke, nextId, nAppended>>
    /\ emitted' = IF mode = "place" /\ Places(pointer, target)
                  THEN PlacePayload(pointer)
                  ELSE NoEmit
    /\ UNCHANGED <<cfg, mode, placementType, snap, zoomFactor, stagePos,
                   strokes, dragging, nWheel>>

\* variant: every accepted point is committed to the finalized collection
HandlePointerMoveEventCommits(pointer) ==
    /\ IF mode = "draw" /\ isDrawing
       THEN AppendPoint(pointer)
       ELSE UNCHANGED <<current, liveStroke, nAppended>>
    /\ strokes' = IF mode = "draw" /\ isDrawing /\ Accepts(pointer)
                  THEN Append(strokes, liveStroke')
                  ELSE strokes
    /\ emitted' = NoEmit
    /\ UNCHANGED <<cfg, mode, placementType, snap, zoomFactor, stagePos,
                   isDrawing, dragging, nextId, nWheel>>

HandlePointerMoveEvent(pointer) ==
    /\ IF mode = "draw" /\ isDrawing
       THEN AppendPoint(pointer)
       ELSE UNCHANGED <<current, liveStroke, nAppended>>
    /\ emitted' = NoEmit
    /\ UNCHANGED <<cfg, mode, placementType, snap, zoomFactor, stagePos,
                   strokes, isDrawing, dragging, nextId, nWheel>>

\* variant: the mode is not checked
HandlePointerUpEventAnyMode ==
    /\ FinishStroke
    /\ emitted' = NoEmit
    /\ UNCHANGED <<cfg, mode, placementType, snap, zoomFactor, stagePos,
                   dragging, nextId, nWheel>>

HandlePointerUpEvent ==
    /\ IF mode = "draw"
       THEN FinishStroke
       ELSE UNCHANGED <<isDrawing, strokes, current, liveStroke, nAppended>>
    /\ emitted' = NoEmit
    /\ UNCHANGED <<cfg, mode, placementType, snap, zoomFactor, stagePos,
                   dragging, nextId, nWheel>>

(***************************************************************************)
(* KonvaMap.tsx: the marker Group's handlers.                              *)
(***************************************************************************)
\* draggable={mode === "edit"}: the library starts a drag only in edit mode
MarkerDragStart(id) ==
    /\ mode = "edit"
    /\ dragging = NoDrag
    /\ dragging' = id
    /\ emitted' = NoEmit
    /\ UNCHANGED <<cfg, mode, placementType, snap, zoomFactor, stagePos,
                   strokes, isDrawing, liveStroke, current, nextId, nWheel,
                   nAppended>>

\* a marker being dragged in edit mode fires dragmove, which bubbles from the
\* marker to the stage's onDragMove; the stage itself has not moved, so the
\* handler reads the position the stage already has
MarkerDragMove(id) ==
    /\ mode = "edit"
    /\ dragging = id
    /\ HandleDragMove(stagePos)

\* the position onDragEnd reports for a marker released at native pos
Released(pos) ==
    IF mode = "edit" /\ snap
    THEN Pt(SnapValue(pos.x, cfg.gridSize), SnapValue(pos.y, cfg.gridSize))
    ELSE pos

\* onDragEnd, the marker released at native position pos
MarkerDragEnd(id, pos) ==
    /\ dragging = id
    /\ dragging' = NoDrag
    /\ emitted' = [cb |-> "onMoveSpot", id |-> id, x |-> Released(pos).x,
                   y |-> Released(pos).y]
    /\ UNCHANGED <<cfg, mode, placementType, snap, zoomFactor, stagePos,
                   strokes, isDrawing, liveStroke, current, nextId, nWheel,
                   nAppended>>

\* onClick / onTap
\* variant: the mode is not checked
MarkerClickAnyMode(id) ==
    /\ emitted' = [cb |-> "onSelectSpot", id |-> id]
    /\ UNCHANGED <<cfg, mode, placementType, snap, zoomFactor, stagePos,
                   strokes, isDrawing, liveStroke, current, dragging, nextId,
                   nWheel, nAppended>>

MarkerClick(id) ==
    /\ emitted' = IF mode = "browse" THEN [cb |-> "onSelectSpot", id |-> id]
                  ELSE NoEmit
    /\ UNCHANGED <<cfg, mode, placementType, snap, zoomFactor, stagePos,
                   strokes, isDrawing, liveStroke, current, dragging, nextId,
                   nWheel, nAppended>>

\* onContextMenu
\* variant: the mode is not checked
MarkerContextMenuAnyMode(id) ==
    /\ emitted' = [cb |-> "onDeleteSpot", id |-> id]
    /\ UNCHANGED <<cfg, mode, placementType, snap, zoomFactor, stagePos,
                   strokes, isDrawing, liveStroke, current, dragging, nextId,
                   nWheel, nAppended>>

MarkerContextMenu(id) ==
    /\ emitted' = IF mode = "edit" THEN [cb |-> "onDeleteSpot", id |-> id]
                  ELSE NoEmit
    /\ UNCHANGED <<cfg, mode, placementType, snap, zoomFactor, stagePos,
                   strokes, isDrawing, liveStroke, current, dragging, nextId,
                   nWheel, nAppended>>

(***************************************************************************)
(* KonvaMap.tsx: useImage and the fallback text.                           *)
(***************************************************************************)
MaxLoads == 2       \* Image objects in flight at once

stageVars == <<cfg, mode, placementType, snap, zoomFactor, stagePos, strokes,
               isDrawing, liveStroke, current, dragging, nextId, nWheel,
               nAppended, nEvents>>

\* the host renders the component with another mapImageUrl: the effect runs
\* again, clears error and starts loading a new Image; img is left as it is
ChangeUrl(u) ==
    /\ u # mapImageUrl
    /\ BagCardinality(pending) < MaxLoads
    /\ mapImageUrl' = u
    /\ error' = NoError
    /\ pending' = pending (+) SetToBag({u})
    /\ emitted' = NoEmit
    /\ UNCHANGED <<img, stageVars, dataVars>>

\* image.onload of an Image object created for URL u
ImageLoad(u) ==
    /\ BagIn(u, pending)
    /\ img' = u
    /\ pending' = pending (-) SetToBag({u})
    /\ emitted' = NoEmit
    /\ UNCHANGED <<mapImageUrl, error, stageVars, dataVars>>

\* image.onerror of an Image object created for URL u
ImageError(u) ==
    /\ BagIn(u, pending)
    /\ img' = NoImage
    /\ error' = u
    /\ pending' = pending (-) SetToBag({u})
    /\ emitted' = NoEmit
    /\ UNCHANGED <<mapImageUrl, stageVars, dataVars>>

\* {(!img || error) && <Text ... />}
FallbackShown == img = NoImage \/ error # NoError

\* the named shapes a click inside the map can land on when no marker is
\* under it: the image shape covers the background rect; without an image
\* to draw, which of the two takes the hit is left to the library
HitTargets == IF img = NoImage THEN {"bg", "map"} ELSE {"map"}

(***************************************************************************)
(* useMapData: the data hook, and the persistence service it calls.  Every *)
(* call is split where the code awaits: it is issued, the service executes *)
(* it at some later moment, and its answer returns to the hook at some     *)
(* moment after that, so answers can return in any order.                  *)
(***************************************************************************)
MaxInFlight == 2    \* persistence calls in flight at once

Maps == {"a", "b"}

\* native positions of spots
Positions == {IPt(220, 400), IPt(600, 1200)}

\* where a new spot is placed
PlacedAt == {IPt(600, 1200)}

\* the id of the row the service holds at mount, and the ids it hands out
SeedIds == {1}
FreshIds == {2}

NoMove == [none |-> TRUE]

\* a row of nade_spots, and equally an element of the local spot list
Row(id, m, pos) == [id |-> id, map |-> m, pos |-> pos]

\* the drawing saved for map "a" before the page is opened
SavedStroke == Stroke(0, <<RInt(5), RInt(5)>>)

\* a call in flight: alive is the flag of the load effect run that issued it
Req(op, m, id, pos, strk) ==
    [op |-> op, alive |-> TRUE, map |-> m, id |-> id, pos |-> pos,
     strokes |-> strk, phase |-> "sent", ok |-> TRUE, rows |-> <<>>]

IsLoad(r) == r.op \in {"selectSpots", "selectDrawings"}

\* the rows of a set in id order
RECURSIVE SeqOf(_)
SeqOf(S) ==
    IF S = {} THEN <<>>
    ELSE LET r == CHOOSE r \in S : \A q \in S : r.id <= q.id
         IN  <<r>> \o SeqOf(S \ {r})

Without(seq, i) == SubSeq(seq, 1, i - 1) \o SubSeq(seq, i + 1, Len(seq))

Ids(list) == {list[i].id : i \in 1 .. Len(list)}

\* the effect's cleanup: alive = false for every load call in flight
Cleanup(reqs) ==
    [i \in 1 .. Len(reqs) |->
       IF IsLoad(reqs[i]) THEN [reqs[i] EXCEPT !.alive = FALSE] ELSE reqs[i]]

\* the host renders the hook with another map key: the previous effect run
\* is cleaned up and a new run starts; spots and strokes are left as they are
ChangeMap(m) ==
    /\ m # map
    /\ Len(requests) < MaxInFlight
    /\ map' = m
    /\ loading' = TRUE
    /\ dataError' = ""
    /\ requests' = Append(Cleanup(requests),
                          Req("selectSpots", m, 0, IPt(0, 0), <<>>))
    /\ emitted' = NoEmit
    /\ UNCHANGED <<spots, db, lastMove, stageVars, imageVars>>

\* addSpot up to its await
AddSpotCall(pos) ==
    /\ Len(requests) < MaxInFlight
    /\ requests' = Append(requests, Req("insert", map, 0, pos, <<>>))
    /\ emitted' = NoEmit
    /\ UNCHANGED <<map, spots, loading, dataError, db, lastMove, stageVars,
                   imageVars>>

\* updateSpot(id, {x, y}) up to its await, called from onMoveSpot for a
\* marker of the local list
UpdateSpotCall(id, pos) ==
    /\ id \in Ids(spots)
    /\ Len(requests) < MaxInFlight
    /\ requests' = Append(requests, Req("update", map, id, pos, <<>>))
    /\ lastMove' = [lastMove EXCEPT ![id] = pos]
    /\ emitted' = NoEmit
    /\ UNCHANGED <<map, spots, loading, dataError, db, stageVars, imageVars>>

\* deleteSpot(id) up to its await, called from onDeleteSpot
DeleteSpotCall(id) ==
    /\ id \in Ids(spots)
    /\ Len(requests) < MaxInFlight
    /\ requests' = Append(requests, Req("delete", map, id, IPt(0, 0), <<>>))
    /\ emitted' = NoEmit
    /\ UNCHANGED <<map, spots, loading, dataError, db, lastMove, stageVars,
                   imageVars>>

\* saveDrawings(strokes) up to its await, called from the Save button
SaveDrawingsCall ==
    /\ Len(requests) < MaxInFlight
    /\ requests' = Append(requests, Req("upsert", map, 0, IPt(0, 0), strokes))
    /\ emitted' = NoEmit
    /\ UNCHANGED <<map, spots, loading, dataError, db, lastMove, stageVars,
                   imageVars>>

\* the tables after the service has carried out call r; the table generates
\* the id of an inserted row and never hands out an id twice (db.used)
Applied(r) ==
    CASE r.op = "insert" ->
           LET id == CHOOSE id \in FreshIds : id \notin db.used
           IN  [db EXCEPT !.spots = @ \cup {Row(id, r.map, r.pos)},
                          !.used = @ \cup {id}]
      [] r.op = "update" ->
           [db EXCEPT !.spots = {IF q.id = r.id THEN [q EXCEPT !.pos = r.pos]
                                 ELSE q : q \in @}]
      [] r.op = "delete" ->
           [db EXCEPT !.spots = {q \in @ : q.id # r.id}]
      [] r.op = "upsert" ->
           [db EXCEPT !.drawings[r.map] = r.strokes]
      [] OTHER -> db

\* what the service answers to call r, carried out on the tables after
Answer(r, after) ==
    CASE r.op = "insert" ->
           SeqOf({q \in after.spots : \A o \in db.spots : o.id # q.id})
      [] r.op = "selectSpots" -> SeqOf({q \in after.spots : q.map = r.map})
      [] OTHER -> <<>>

\* the service carries out call i, or fails it and changes nothing
Execute(i, ok) ==
    LET r == requests[i]
        can == r.op = "insert" => \E id \in FreshIds : id \notin db.used
    IN  /\ r.phase = "sent"
        /\ ok => can
        /\ db' = IF ok THEN Applied(r) ELSE db
        /\ requests' =
             [requests EXCEPT ![i] =
                [r EXCEPT !.phase = "answered", !.ok = ok,
                          !.rows = IF ok THEN Answer(r, Applied(r)) ELSE <<>>,
                          !.strokes = IF ok /\ r.op = "selectDrawings"
                                      THEN db.drawings[r.map] ELSE @]]
        /\ emitted' = NoEmit
        /\ UNCHANGED <<map, spots, loading, dataError, lastMove, stageVars,
                       imageVars>>

\* the promise the host awaits is rejected with the service's error
Rejected(r) == [cb |-> "rejected", op |-> r.op]

\* variant: the continuation does not look at the alive flag
LoadReturnIgnoresAlive(r, rest) ==
    IF ~r.ok
    THEN /\ requests' = rest
         /\ dataError' = "error"
         /\ loading' = FALSE
         /\ UNCHANGED <<spots, strokes>>
    ELSE IF r.op = "selectSpots"
    THEN /\ spots' = r.rows
         /\ requests' = Append(rest, Req("selectDrawings", r.map, 0,
                                         IPt(0, 0), <<>>))
         /\ UNCHANGED <<strokes, loading, dataError>>
    ELSE /\ strokes' = r.strokes
         /\ loading' = FALSE
         /\ requests' = rest
         /\ UNCHANGED <<spots, dataError>>

\* the continuation of the load effect after one of its awaits
LoadReturn(r, rest) ==
    IF ~r.alive
    THEN /\ requests' = rest
         /\ UNCHANGED <<spots, strokes, loading, dataError>>
    ELSE IF ~r.ok
    THEN /\ requests' = rest
         /\ dataError' = "error"
         /\ loading' = FALSE
         /\ UNCHANGED <<spots, strokes>>
    ELSE IF r.op = "selectSpots"
    THEN /\ spots' = r.rows
         /\ requests' = Append(rest, Req("selectDrawings", r.map, 0,
                                         IPt(0, 0), <<>>))
         /\ UNCHANGED <<strokes, loading, dataError>>
    ELSE /\ strokes' = r.strokes
         /\ loading' = FALSE
         /\ requests' = rest
         /\ UNCHANGED <<spots, dataError>>

\* variant: the continuation applies the change to the local state whether
\* the call succeeded or not
CallReturnAppliesOnFailure(r, rest) ==
    /\ requests' = rest
    /\ UNCHANGED <<loading, dataError>>
    /\ spots' =
         CASE r.op = "insert" -> spots \o <<Row(0, r.map, r.pos)>>
           [] r.op = "update" ->
                [i \in 1 .. Len(spots) |->
                   IF spots[i].id = r.id
                   THEN [spots[i] EXCEPT !.pos = r.pos]
                   ELSE spots[i]]
           [] r.op = "delete" ->
                SelectSeq(spots, LAMBDA q : q.id # r.id)
           [] OTHER -> spots
    /\ strokes' = IF r.op = "upsert" THEN r.strokes ELSE strokes

\* the continuation of addSpot, updateSpot, deleteSpot and saveDrawings
\* after the await
CallReturn(r, rest) ==
    /\ requests' = rest
    /\ UNCHANGED <<loading, dataError>>
    /\ IF ~r.ok
       THEN UNCHANGED <<spots, strokes>>
       ELSE /\ spots' =
                 CASE r.op = "insert" -> spots \o r.rows
                   [] r.op = "update" ->
                        [i \in 1 .. Len(spots) |->
                           IF spots[i].id = r.id
                           THEN [spots[i] EXCEPT !.pos = r.pos]
                           ELSE spots[i]]
                   [] r.op = "delete" ->
                        SelectSeq(spots, LAMBDA q : q.id # r.id)
                   [] OTHER -> spots
            /\ strokes' = IF r.op = "upsert" THEN r.strokes ELSE strokes

\* the answer of call i reaches the hook
Return(i) ==
    LET r == requests[i]
        rest == Without(requests, i)
    IN  /\ r.phase = "answered"
        /\ IF IsLoad(r) THEN LoadReturn(r, rest) ELSE CallReturn(r, rest)
        /\ emitted' = IF ~IsLoad(r) /\ ~r.ok THEN Rejected(r) ELSE NoEmit
        /\ lastMove' = IF r.op = "update" /\ ~r.ok
                       THEN [lastMove EXCEPT ![r.id] = NoMove]
                       ELSE lastMove
        /\ UNCHANGED <<map, db, cfg, mode, placementType, snap,
                       zoomFactor, stagePos, isDrawing, liveStroke, current,
                       dragging, nextId, nWheel, nAppended, nEvents, imageVars>>

(***************************************************************************)
(* Specifications.                                                         *)
(***************************************************************************)
Mounted(c) ==
    /\ cfg = c
    /\ mode = "browse"
    /\ placementType = "smoke"
    /\ snap = TRUE
    /\ zoomFactor = RInt(1)
    /\ stagePos = ClampStagePos(Pt(RZero, RZero), BaseScale)
    /\ strokes = <<>>
    /\ isDrawing = FALSE
    /\ liveStroke = NoStroke
    /\ current = NoStroke
    /\ dragging = NoDrag
    /\ emitted = NoEmit
    /\ nextId = 1
    /\ nWheel = 0
    /\ nAppended = 0
    /\ nEvents = 0
    /\ mapImageUrl = "/maps/a.png"
    /\ img = NoImage
    /\ error = NoError
    /\ pending = SetToBag({"/maps/a.png"})
    /\ map = "a"
    /\ spots = <<>>
    /\ loading = TRUE
    /\ dataError = ""
    /\ requests = <<Req("selectSpots", "a", 0, IPt(0, 0), <<>>)>>
    /\ db = [spots |-> {Row(id, "a", IPt(220, 400)) : id \in SeedIds},
             used |-> SeedIds,
             drawings |-> [m \in Maps |-> IF m = "a" THEN <<SavedStroke>>
                                          ELSE <<>>]]
    /\ lastMove = [id \in SeedIds \cup FreshIds |-> NoMove]

PtAdd(a, b) == Pt(RAdd(a.x, b.x), RAdd(a.y, b.y))

\* screen positions of the pointer; the last lies left of the stage, where
\* a touch that started on the stage can move to
Pointers == {IPt(100, 100), IPt(3, 0), IPt(-6, 30)}

\* how far a stage drag has moved the stage when dragmove fires
DragDeltas == {IPt(-50, -20), IPt(2000, 2000)}

\* native positions a dragged marker is released at
DropPoints == {IPt(213, 407), IPt(-30, 100), IPt(600, 1210)}

\* one more event of a behaviour of at most MaxEvents events
Counted ==
    /\ nEvents < MaxEvents
    /\ nEvents' = nEvents + 1
    /\ UNCHANGED <<imageVars, dataVars>>

\* The KonvaMap component and the mode toolbar under the deployed configuration.
Init == Mounted(Deployed)

Next ==
    \/ \E m \in Modes : Counted /\ SetMode(m)
    \/ \E t \in NadeTypes : Counted /\ SetPlacementType(t)
    \/ \E b \in BOOLEAN : Counted /\ SetSnap(b)
    \/ \E p \in Pointers \cup {NoPointer}, dy \in DeltaYs :
          Counted /\ HandleWheel(p, dy)
    \/ \E d \in DragDeltas : Counted /\ StageDrag(PtAdd(stagePos, d))
    \/ Counted /\ ResetView
    \/ \E p \in Pointers \cup {NoPointer}, t \in Targets :
          Counted /\ HandlePointerDownEvent(p, t)
    \/ \E p \in Pointers \cup {NoPointer} : Counted /\ HandlePointerMoveEvent(p)
    \/ Counted /\ HandlePointerUpEvent
    \/ \E id \in SpotIds : Counted /\ MarkerDragStart(id)
    \/ \E id \in SpotIds : Counted /\ MarkerDragMove(id)
    \/ \E id \in SpotIds, pos \in DropPoints : Counted /\ MarkerDragEnd(id, pos)
    \/ \E id \in SpotIds : Counted /\ MarkerClick(id)
    \/ \E id \in SpotIds : Counted /\ MarkerContextMenu(id)

Spec == Init /\ [][Next]_vars

(***************************************************************************)
(* The viewport controller on its own, under every configuration: wheel,   *)
(* pan and reset in every mode.                                            *)
(***************************************************************************)
PointersView == {IPt(100, 100), IPt(0, 0), IPt(900, 700)}

InitView == \E c \in Configs : Mounted(c)

NextView ==
    \/ \E m \in Modes : SetMode(m) /\ UNCHANGED <<nEvents, imageVars, dataVars>>
    \/ \E p \in PointersView \cup {NoPointer}, dy \in DeltaYs :
          HandleWheel(p, dy) /\ UNCHANGED <<nEvents, imageVars, dataVars>>
    \/ \E d \in DragDeltas : StageDrag(PtAdd(stagePos, d)) /\ UNCHANGED <<nEvents, imageVars, dataVars>>
    \/ ResetView /\ UNCHANGED <<nEvents, imageVars, dataVars>>

SpecView == InitView /\ [][NextView]_vars

(***************************************************************************)
(* The stroke capture engine and the drawing buttons on their own, at the   *)
(* mounted view: pointer sequences of any length under every mode change.  *)
(***************************************************************************)
\* at the mounted scale 3/4 these are the native points (0,0), (4,4),
\* (16/3,4) and, out of bounds, (-4,0)
PointersStroke == {IPt(0, 0), IPt(3, 3), IPt(4, 3), IPt(-3, 0)}

InitStroke == Mounted(Deployed)

\* the event target matters to placement only; the stroke engine never
\* reads it
NextStroke ==
    \/ \E m \in Modes : SetMode(m) /\ UNCHANGED <<nEvents, imageVars, dataVars>>
    \/ \E p \in PointersStroke \cup {NoPointer} :
          HandlePointerDownEvent(p, "stage") /\ UNCHANGED <<nEvents, imageVars, dataVars>>
    \/ \E p \in PointersStroke \cup {NoPointer} :
          HandlePointerMoveEvent(p) /\ UNCHANGED <<nEvents, imageVars, dataVars>>
    \/ HandlePointerUpEvent /\ UNCHANGED <<nEvents, imageVars, dataVars>>
    \/ Undo /\ UNCHANGED <<nEvents, imageVars, dataVars>>
    \/ Clear /\ UNCHANGED <<nEvents, imageVars, dataVars>>

SpecStroke == InitStroke /\ [][NextStroke]_vars

\* The viewport under resizing: the deployed component whose host changes
\* the frame between wheel, pan and reset steps.  MapPage passes a square
\* frame; the component takes width and height separately.
Sizes == {<<900, 900>>, <<600, 600>>, <<900, 1000>>}

InitResize == Mounted(Deployed)

NextResize ==
    \/ \E s \in Sizes : Resize(s[1], s[2]) /\ UNCHANGED <<nEvents, imageVars, dataVars>>
    \/ \E p \in PointersView, dy \in DeltaYs :
          HandleWheel(p, dy) /\ UNCHANGED <<nEvents, imageVars, dataVars>>
    \/ \E d \in DragDeltas : StageDrag(PtAdd(stagePos, d)) /\ UNCHANGED <<nEvents, imageVars, dataVars>>
    \/ ResetView /\ UNCHANGED <<nEvents, imageVars, dataVars>>

SpecResize == InitResize /\ [][NextResize]_vars

\* The component while its background image loads, fails or is replaced,
\* with the mode toolbar and the stage's pointer handlers.
InitImage == Mounted(Deployed)

NextImage ==
    \/ \E u \in Urls : ChangeUrl(u)
    \/ \E u \in Urls : ImageLoad(u)
    \/ \E u \in Urls : ImageError(u)
    \/ \E m \in Modes : SetMode(m) /\ UNCHANGED <<nEvents, imageVars, dataVars>>
    \/ \E p \in Pointers, t \in HitTargets :
          HandlePointerDownEvent(p, t) /\ UNCHANGED <<nEvents, imageVars, dataVars>>
    \/ HandlePointerUpEvent /\ UNCHANGED <<nEvents, imageVars, dataVars>>

SpecImage == InitImage /\ [][NextImage]_vars

\* The viewport at its zoom limits: the configurations of SpecView and one
\* whose maxZoom a single wheel step reaches, under wheel, pan, reset and
\* resize steps.
LimitConfigs == Configs \cup {Cfg(900, 1000, 1200, RInt(1), <<21, 20>>, 20)}

InitLimit == \E c \in LimitConfigs : Mounted(c)

NextLimit ==
    \/ \E s \in Sizes : Resize(s[1], s[2]) /\ UNCHANGED <<nEvents, imageVars, dataVars>>
    \/ \E p \in PointersView, dy \in DeltaYs :
          HandleWheel(p, dy) /\ UNCHANGED <<nEvents, imageVars, dataVars>>
    \/ \E d \in DragDeltas :
          StageDrag(PtAdd(stagePos, d)) /\ UNCHANGED <<nEvents, imageVars, dataVars>>
    \/ ResetView /\ UNCHANGED <<nEvents, imageVars, dataVars>>

SpecLimit == InitLimit /\ [][NextLimit]_vars

\* The local spot list: the load at mount, then addSpot, updateSpot and
\* deleteSpot calls, the service executing and answering them in any order.
InitSpots == Mounted(Deployed)

NextSpots ==
    \/ \E pos \in PlacedAt : AddSpotCall(pos)
    \/ \E id \in SeedIds, pos \in Positions : UpdateSpotCall(id, pos)
    \/ \E id \in SeedIds \cup FreshIds : DeleteSpotCall(id)
    \/ \E i \in 1 .. Len(requests), ok \in BOOLEAN : Execute(i, ok)
    \/ \E i \in 1 .. Len(requests) : Return(i)

SpecSpots == InitSpots /\ [][NextSpots]_vars

\* The load effect and the drawings: map changes, Undo, Clear and Save,
\* the service executing and answering the calls in any order.
InitLoad == Mounted(Deployed)

NextLoad ==
    \/ \E m \in Maps : ChangeMap(m)
    \/ SaveDrawingsCall
    \/ \E i \in 1 .. Len(requests), ok \in BOOLEAN : Execute(i, ok)
    \/ \E i \in 1 .. Len(requests) : Return(i)
    \/ Undo /\ UNCHANGED <<nEvents, imageVars, dataVars>>
    \/ Clear /\ UNCHANGED <<nEvents, imageVars, dataVars>>

SpecLoad == InitLoad /\ [][NextLoad]_vars

\* The drawings of a page that has finished loading, in draw mode: strokes
\* are captured, undone, cleared and saved, and only these steps and the
\* answers to the saves write the finalized strokes.
InitSave ==
    /\ cfg = Deployed
    /\ mode = "draw"
    /\ placementType = "smoke"
    /\ snap = TRUE
    /\ zoomFactor = RInt(1)
    /\ stagePos = ClampStagePos(Pt(RZero, RZero), BaseScale)
    /\ strokes = <<SavedStroke>>
    /\ isDrawing = FALSE
    /\ liveStroke = NoStroke
    /\ current = NoStroke
    /\ dragging = NoDrag
    /\ emitted = NoEmit
    /\ nextId = 1
    /\ nWheel = 0
    /\ nAppended = 0
    /\ nEvents = 0
    /\ mapImageUrl = "/maps/a.png"
    /\ img = "/maps/a.png"
    /\ error = NoError
    /\ pending = EmptyBag
    /\ map = "a"
    /\ spots = SeqOf({Row(id, "a", IPt(220, 400)) : id \in SeedIds})
    /\ loading = FALSE
    /\ dataError = ""
    /\ requests = <<>>
    /\ db = [spots |-> {Row(id, "a", IPt(220, 400)) : id \in SeedIds},
             used |-> SeedIds,
             drawings |-> [m \in Maps |-> IF m = "a" THEN <<SavedStroke>>
                                          ELSE <<>>]]
    /\ lastMove = [id \in SeedIds \cup FreshIds |-> NoMove]

NextSave ==
    \/ HandlePointerDownEvent(IPt(3, 3), "stage")
          /\ UNCHANGED <<nEvents, imageVars, dataVars>>
    \/ HandlePointerUpEvent /\ UNCHANGED <<nEvents, imageVars, dataVars>>
    \/ Undo /\ UNCHANGED <<nEvents, imageVars, dataVars>>
    \/ Clear /\ UNCHANGED <<nEvents, imageVars, dataVars>>
    \/ SaveDrawingsCall
    \/ \E i \in 1 .. Len(requests), ok \in BOOLEAN : Execute(i, ok)
    \/ \E i \in 1 .. Len(requests) : Return(i)

SpecSave == InitSave /\ [][NextSave]_vars

(***************************************************************************)
(* Properties.                                                             *)
(***************************************************************************)
\* every variable a rejected event must leave alone
Frame == <<cfg, mode, placementType, snap, zoomFactor, stagePos, strokes,
           isDrawing, liveStroke, current, dragging, nextId, nWheel, nAppended>>

\* C1 (as claimed): once the mode is not draw there is no live stroke and no
\* capture left that a later event could extend or finalize.
C1_DiscardedOutsideDraw ==
    mode # "draw" => liveStroke = NoStroke /\ current = NoStroke /\ ~isDrawing

\* C2 (as claimed): a stroke finished after k accepted appends is finalized
\* with a point sequence of length 2*k.
C2_LengthTwoK ==
    [][(HandlePointerUpEvent /\ mode = "draw" /\ current # NoStroke)
        => Len(strokes'[Len(strokes')].points) = 2 * nAppended]_vars

\* C2 (amended): finishing a stroke that was started and then had k points
\* accepted appends exactly one stroke to the finalized collection, with a
\* point sequence of length 2*(k+1), and leaves no live stroke.
C2_LengthTwoKPlusTwo ==
    [][(HandlePointerUpEvent /\ mode = "draw" /\ current # NoStroke)
        => /\ Len(strokes') = Len(strokes) + 1
           /\ SubSeq(strokes', 1, Len(strokes)) = strokes
           /\ Len(strokes'[Len(strokes')].points) = 2 * (nAppended + 1)
           /\ liveStroke' = NoStroke]_vars

\* a stroke with one appended point has been finalized
C2_Witness ==
    /\ Len(strokes) = 1
    /\ Len(strokes[1].points) = 4
    /\ liveStroke = NoStroke

\* C3 (as claimed): every wheel step leaves the native point under the
\* pointer where it was.
C3_AlwaysStationary ==
    [][\A p \in PointersView, dy \in DeltaYs :
          HandleWheel(p, dy)
          => \A pos \in {stagePos'}, scale \in {StageScale'} :
                NativeOf(p, pos, scale) = NativeOf(p, stagePos, StageScale)]_vars

\* C3 (amended): a wheel step whose zoom-to-cursor offset already lies in
\* the clamp range of the new scale, so that the clamp returns it as the
\* new stage position, leaves the native point under the pointer where it
\* was.
C3_StationaryUnlessClamped ==
    [][\A p \in PointersView, dy \in DeltaYs :
          (HandleWheel(p, dy) /\ stagePos' = WheelPos(p, dy))
          => \A pos \in {stagePos'}, scale \in {StageScale'} :
                NativeOf(p, pos, scale) = NativeOf(p, stagePos, StageScale)]_vars

\* a wheel step has zoomed in and left the stage strictly inside its range
C3_Witness ==
    /\ nWheel = 1
    /\ zoomFactor = ScaleBy
    /\ RLt(RSub(RInt(cfg.width), RMul(RInt(cfg.nativeSize), StageScale)), stagePos.x)
    /\ RLt(stagePos.x, RZero)
    /\ RLt(RSub(RInt(cfg.height), RMul(RInt(cfg.nativeSize), StageScale)), stagePos.y)
    /\ RLt(stagePos.y, RZero)

\* the offset lies in the valid range of an axis of length size
InRange(offset, size) ==
    LET mapPixelSize == RMul(RInt(cfg.nativeSize), RMul(Rat(cfg.width, cfg.nativeSize), zoomFactor))
        room == RSub(RInt(size), mapPixelSize)
    IN  IF RLe(RInt(size), mapPixelSize)
        THEN RLe(room, offset) /\ RLe(offset, RZero)
        ELSE RAdd(offset, offset) = room

\* C4: after any sequence of wheel, pan and reset steps stagePosition lies,
\* on each axis, in [displaySize - mapPixelSize, 0] when the map is at least
\* as large as the frame and is (displaySize - mapPixelSize)/2 otherwise.
C4_StageInRange ==
    InRange(stagePos.x, cfg.width) /\ InRange(stagePos.y, cfg.height)

\* two wheel steps and a pan: the map overflows the tall frame and rests
\* against its left edge
C4_Witness ==
    /\ cfg.height = 1000
    /\ nWheel = 2
    /\ zoomFactor = RMul(ScaleBy, ScaleBy)
    /\ stagePos.x = RSub(RInt(cfg.width), RMul(RInt(cfg.nativeSize), StageScale))
    /\ RLt(stagePos.y, RZero)

\* C5 (as claimed): every position reported through onMoveSpot lies within
\* [0, nativeSize] on both axes.
C5_MoveInBounds ==
    emitted.cb = "onMoveSpot"
    => /\ RLe(RZero, emitted.x) /\ RLe(emitted.x, RInt(cfg.nativeSize))
       /\ RLe(RZero, emitted.y) /\ RLe(emitted.y, RInt(cfg.nativeSize))

\* C6: onPlaceSpot is emitted only by a pointerDown in place mode on the
\* background or map shape, with coordinates inside [0, nativeSize]^2; a
\* place-mode pointerDown that is out of bounds or on a marker emits
\* nothing and changes no state.
C6_PlaceOnlyOnMapInBounds ==
    [][/\ emitted'.cb = "onPlaceSpot"
          => /\ mode = "place"
             /\ \E p \in Pointers, t \in {"bg", "map"} : HandlePointerDownEvent(p, t)
             /\ RLe(RZero, emitted'.x) /\ RLe(emitted'.x, RInt(cfg.nativeSize))
             /\ RLe(RZero, emitted'.y) /\ RLe(emitted'.y, RInt(cfg.nativeSize))
       /\ \A p \in Pointers, t \in Targets :
            ( /\ mode = "place"
              /\ \/ t = "marker"
                 \/ RLt(ToNative(p).x, RZero) \/ RLt(RInt(cfg.nativeSize), ToNative(p).x)
                 \/ RLt(ToNative(p).y, RZero) \/ RLt(RInt(cfg.nativeSize), ToNative(p).y)
              /\ HandlePointerDownEvent(p, t) )
            => emitted' = NoEmit /\ UNCHANGED Frame]_vars

\* a placement has been emitted
C6_Witness == mode = "place" /\ emitted.cb = "onPlaceSpot"

\* C7: a placement click at screen point p reports the (x, y) with
\* x * effectiveScale + stagePosition.x = p.x (likewise y) and the placement
\* type active at the click; at (100,100) with stagePosition (0,0), scale
\* 0.75 and type smoke it reports (133.33, 133.33, smoke).
C7_PlacementCoordinates ==
    [][\A p \in Pointers, t \in Targets :
          (emitted'.cb = "onPlaceSpot" /\ HandlePointerDownEvent(p, t))
          => /\ RAdd(RMul(emitted'.x, StageScale), stagePos.x) = p.x
             /\ RAdd(RMul(emitted'.y, StageScale), stagePos.y) = p.y
             /\ emitted'.type = placementType
             /\ ( /\ p = IPt(100, 100)
                  /\ stagePos = Pt(RZero, RZero)
                  /\ StageScale = <<3, 4>>
                  /\ placementType = "smoke" )
                => emitted' = [cb |-> "onPlaceSpot", x |-> <<400, 3>>,
                               y |-> <<400, 3>>, type |-> "smoke"]]_vars

\* the scenario's placement has been emitted
C7_Witness ==
    /\ emitted = [cb |-> "onPlaceSpot", x |-> <<400, 3>>, y |-> <<400, 3>>,
                  type |-> "smoke"]
    /\ stagePos = Pt(RZero, RZero)
    /\ StageScale = <<3, 4>>

C10_Decimation ==
    [][\A p \in PointersStroke :
          ( /\ mode = "draw" /\ isDrawing /\ current # NoStroke
            /\ HandlePointerMoveEvent(p)
            /\ LET n == Len(current.rawPoints)
                   dx == RSub(ToNative(p).x, current.rawPoints[n - 1])
                   dy == RSub(ToNative(p).y, current.rawPoints[n])
               IN  RLt(RAdd(RMul(dx, dx), RMul(dy, dy)), RInt(4)) )
          => /\ Len(liveStroke'.points) = Len(liveStroke.points)
             /\ current'.rawPoints = current.rawPoints]_vars

\* capturing, with a pointer position in reach that is within the threshold
\* of the last raw point but not of the last smoothed point
C10_Witness ==
    /\ mode = "draw" /\ isDrawing /\ current # NoStroke
    /\ \E p \in PointersStroke :
          LET n == Len(current.rawPoints)
              pts == current.stroke.points
          IN  /\ TooClose(ToNative(p), current.rawPoints[n - 1], current.rawPoints[n])
              /\ ~TooClose(ToNative(p), pts[n - 1], pts[n])

RECURSIVE SumOfPairs(_, _, _, _)
\* coordinate k (1 for x, 2 for y) of the raw points lo .. hi, summed
SumOfPairs(raw, k, lo, hi) ==
    IF hi < lo THEN RZero
    ELSE RAdd(raw[2 * (hi - 1) + k], SumOfPairs(raw, k, lo, hi - 1))

C12_UndoAndClear ==
    [][/\ Undo => /\ Len(strokes') = (IF Len(strokes) = 0 THEN 0 ELSE Len(strokes) - 1)
                  /\ \A i \in 1 .. Len(strokes') : strokes'[i] = strokes[i]
       /\ Clear => strokes' = <<>>]_vars

\* of two finalized strokes Undo has left the first
C12_Witness ==
    /\ Len(strokes) = 1
    /\ strokes[1].id = 1
    /\ nextId = 3
    /\ ~isDrawing

\* v snapped to the grid: the multiple k*grid with k - 1/2 <= v/grid < k + 1/2
IsSnapOf(s, v, grid) ==
    /\ s[2] = 1
    /\ s[1] % grid = 0
    /\ RLe(RSub(RAdd(s, s), RInt(grid)), RAdd(v, v))
    /\ RLt(RAdd(v, v), RAdd(RAdd(s, s), RInt(grid)))

\* C13: a marker released in edit mode is reported through onMoveSpot at its
\* position rounded to the grid when snapToGrid is on, (213, 407) with grid
\* 20 as (220, 400), and at the released position itself when it is off.
C13_SnapOnRelease ==
    [][\A id \in SpotIds, pos \in DropPoints :
          (MarkerDragEnd(id, pos) /\ mode = "edit")
          => /\ emitted'.cb = "onMoveSpot"
             /\ emitted'.id = id
             /\ IF snap
                THEN /\ IsSnapOf(emitted'.x, pos.x, cfg.gridSize)
                     /\ IsSnapOf(emitted'.y, pos.y, cfg.gridSize)
                     /\ (pos = IPt(213, 407) /\ cfg.gridSize = 20)
                        => emitted'.x = RInt(220) /\ emitted'.y = RInt(400)
                ELSE emitted'.x = pos.x /\ emitted'.y = pos.y]_vars

\* the marker released at (213, 407) has been reported at (220, 400)
C13_Witness ==
    /\ mode = "edit" /\ snap
    /\ emitted = [cb |-> "onMoveSpot", id |-> 1, x |-> RInt(220), y |-> RInt(400)]

\* candidate stage offsets
Offsets ==
    { IPt(0, 0), IPt(-2000, 500), IPt(37, -1200), IPt(-30, -30),
      Pt(<<-1, 2>>, <<2001, 2>>) }

\* C14: clamping is idempotent: clamping a clamped offset at the same scale
\* returns it unchanged.
C14_ClampIdempotent ==
    \A q \in Offsets \cup {stagePos} :
       ClampStagePos(ClampStagePos(q, StageScale), StageScale)
         = ClampStagePos(q, StageScale)

\* zoomed in on the tall frame: candidates exist that the clamp moves on
\* one axis only, on the other only, and on both
C14_Witness ==
    /\ cfg.height = 1000
    /\ zoomFactor = ScaleBy
    /\ \E q \in Offsets : ClampStagePos(q, StageScale).x # q.x
    /\ \E q \in Offsets : ClampStagePos(q, StageScale).x = q.x

\* C15: on an axis where the map is smaller than the frame the clamped
\* offset is (displaySize - nativeSize*scale)/2 whatever the input offset.
C15_Centred ==
    \A q \in Offsets \cup {stagePos} :
       LET c == ClampStagePos(q, StageScale)
           mapPixelSize == RMul(RInt(cfg.nativeSize), StageScale)
       IN  /\ RLt(mapPixelSize, RInt(cfg.width))
              => RAdd(c.x, c.x) = RSub(RInt(cfg.width), mapPixelSize)
           /\ RLt(mapPixelSize, RInt(cfg.height))
              => RAdd(c.y, c.y) = RSub(RInt(cfg.height), mapPixelSize)

\* zoomed in on the tall frame, the map still shorter than it: the stage is
\* centred vertically and has moved horizontally
C15_Witness ==
    /\ cfg.height = 1000
    /\ nWheel = 1
    /\ RLt(RMul(RInt(cfg.nativeSize), StageScale), RInt(cfg.height))
    /\ stagePos.y = RInt(14)
    /\ RLt(stagePos.x, RZero)

\* C16 (as claimed): whatever minZoom <= maxZoom is configured, zoomFactor
\* lies in [minZoom, maxZoom] in every reachable state.
C16_ZoomInRange ==
    RLe(cfg.minZoom, zoomFactor) /\ RLe(zoomFactor, cfg.maxZoom)

\* C17: the live stroke, when present, and every finalized stroke has a
\* point sequence of even length >= 2.
C17_EvenLength ==
    /\ liveStroke # NoStroke
       => Len(liveStroke.points) >= 2 /\ Len(liveStroke.points) % 2 = 0
    /\ \A i \in 1 .. Len(strokes) :
          Len(strokes[i].points) >= 2 /\ Len(strokes[i].points) % 2 = 0

\* a stroke of three points is finalized and another is being captured
C17_Witness ==
    /\ Len(strokes) = 1
    /\ Len(strokes[1].points) = 6
    /\ liveStroke # NoStroke

\* C18: a pointerDown in draw mode while idle stays idle with no live stroke
\* when its native position is out of bounds, and otherwise starts capturing
\* with a live stroke of exactly that one point, tool pen and an identity no
\* finalized stroke has.
C18_StartStroke ==
    [][\A p \in PointersStroke :
          ( /\ mode = "draw" /\ ~isDrawing /\ liveStroke = NoStroke
            /\ HandlePointerDownEvent(p, "stage") )
          => LET nx == RDiv(RSub(p.x, stagePos.x), StageScale)
                 ny == RDiv(RSub(p.y, stagePos.y), StageScale)
                 n == RInt(cfg.nativeSize)
             IN  IF RLt(nx, RZero) \/ RLt(ny, RZero) \/ RLt(n, nx) \/ RLt(n, ny)
                 THEN ~isDrawing' /\ liveStroke' = NoStroke /\ current' = NoStroke
                 ELSE /\ isDrawing'
                      /\ liveStroke'.points = <<nx, ny>>
                      /\ liveStroke'.tool = "pen"
                      /\ \A i \in 1 .. Len(strokes') :
                            strokes'[i].id # liveStroke'.id]_vars

\* a second stroke has been started while the first is finalized
C18_Witness ==
    /\ mode = "draw" /\ isDrawing
    /\ Len(strokes) = 1
    /\ liveStroke # NoStroke
    /\ Len(liveStroke.points) = 2

\* C19: a pointerUp in draw mode while capturing appends the in-progress
\* stroke to the end of the finalized collection and leaves the engine idle
\* with no live stroke; while idle it leaves the collection unchanged; no
\* stroke is in the collection twice.
C19_FinishOnce ==
    [][/\ (HandlePointerUpEvent /\ mode = "draw" /\ current # NoStroke)
          => /\ strokes' = strokes \o <<current.stroke>>
             /\ ~isDrawing' /\ liveStroke' = NoStroke /\ current' = NoStroke
       /\ (HandlePointerUpEvent /\ mode = "draw" /\ current = NoStroke)
          => strokes' = strokes
       /\ \A i, j \in 1 .. Len(strokes') :
             strokes'[i].id = strokes'[j].id => i = j]_vars

\* two strokes have been finalized and the engine is idle
C19_Witness ==
    /\ Len(strokes) = 2
    /\ ~isDrawing /\ liveStroke = NoStroke /\ current = NoStroke

\* C20: in browse, place and edit mode pointerDown, pointerMove and
\* pointerUp change neither the capture state, the live stroke, the raw
\* point history nor the finalized strokes.
C20_NoOpOutsideDraw ==
    [][( /\ mode # "draw"
         /\ \/ \E p \in PointersStroke \cup {NoPointer} :
                  HandlePointerDownEvent(p, "stage") \/ HandlePointerMoveEvent(p)
            \/ HandlePointerUpEvent )
        => UNCHANGED <<isDrawing, liveStroke, current, strokes>>]_vars

\* outside draw mode with a capture still pending and a stroke finalized
C20_Witness ==
    /\ mode = "place"
    /\ isDrawing /\ liveStroke # NoStroke
    /\ Len(strokes) = 1


\* C21: starting a stroke and appending points to it leave the finalized
\* strokes alone; the finalized collection changes only when a stroke is
\* finished (the stroke is appended), on undo (the last stroke is dropped)
\* or on clear (the collection becomes empty).
C21_StrokesChangeOnlyOnCommit ==
    [][strokes' # strokes =>
         /\ ~ \E p \in PointersStroke \cup {NoPointer} :
                 HandlePointerDownEvent(p, "stage")
         /\ ~ \E p \in PointersStroke \cup {NoPointer} :
                 HandlePointerMoveEvent(p)
         /\ \/ /\ HandlePointerUpEvent
               /\ mode = "draw" /\ current # NoStroke
               /\ strokes' = Append(strokes, liveStroke)
            \/ /\ Undo
               /\ strokes' = SubSeq(strokes, 1, Len(strokes) - 1)
            \/ /\ Clear
               /\ strokes' = <<>>]_vars

\* a stroke is finalized and a second one has been started and extended
C21_Witness ==
    /\ Len(strokes) = 1
    /\ isDrawing
    /\ liveStroke # NoStroke
    /\ Len(liveStroke.points) = 4


\* C22: onSelectSpot is emitted only by a click or tap on a marker in browse
\* mode and carries that marker; a click on a marker in place, edit or draw
\* mode never emits onSelectSpot.
C22_SelectOnlyInBrowse ==
    [][/\ emitted'.cb = "onSelectSpot" =>
            /\ mode = "browse"
            /\ \E id \in SpotIds : MarkerClick(id) /\ emitted'.id = id
       /\ mode # "browse" =>
            \A id \in SpotIds : MarkerClick(id) => emitted'.cb # "onSelectSpot"]_vars

\* a marker has just been selected in browse mode
C22_Witness ==
    /\ mode = "browse"
    /\ emitted.cb = "onSelectSpot"
    /\ emitted.id \in SpotIds

\* C23: onDeleteSpot(id) is emitted exactly when the context menu is opened
\* on marker id in edit mode, in that very step; a context menu on a marker
\* in browse, place or draw mode emits nothing and changes nothing.
C23_DeleteOnlyInEdit ==
    [][/\ emitted'.cb = "onDeleteSpot" =>
            /\ mode = "edit"
            /\ \E id \in SpotIds : MarkerContextMenu(id) /\ emitted'.id = id
       /\ \A id \in SpotIds :
            MarkerContextMenu(id) =>
              /\ Frame' = Frame
              /\ emitted' = IF mode = "edit"
                            THEN [cb |-> "onDeleteSpot", id |-> id]
                            ELSE NoEmit]_vars

\* a delete request has just been emitted in edit mode
C23_Witness ==
    /\ mode = "edit"
    /\ emitted.cb = "onDeleteSpot"
    /\ emitted.id \in SpotIds


\* offset v is raw clamped, on an axis of length size, to the range the
\* current scale allows
ClampedTo(v, raw, size) ==
    LET mapPixelSize == RMul(RInt(cfg.nativeSize), StageScale)
        room == RSub(RInt(size), mapPixelSize)
    IN  IF RLe(RInt(size), mapPixelSize)
        THEN /\ RLt(raw, room) => v = room
             /\ RLt(RZero, raw) => v = RZero
             /\ (RLe(room, raw) /\ RLe(raw, RZero)) => v = raw
        ELSE RAdd(v, v) = room

\* C24: a drag of the stage moves stagePosition only in browse and edit
\* mode, where the new stagePosition is the dragged offset clamped at the
\* current scale; in place and draw mode the same gesture is accepted and
\* leaves zoomFactor and stagePosition as they were.
C24_DragPanOnlyInBrowseAndEdit ==
    [][\A d \in DragDeltas :
         StageDrag(PtAdd(stagePos, d)) =>
           \A new \in {stagePos'} :
              /\ zoomFactor' = zoomFactor
              /\ IF mode \in {"browse", "edit"}
                 THEN /\ ClampedTo(new.x, PtAdd(stagePos, d).x, cfg.width)
                      /\ ClampedTo(new.y, PtAdd(stagePos, d).y, cfg.height)
                 ELSE new = stagePos]_vars

\* zoomed in, the stage has been panned to an offset strictly inside the
\* allowed range on both axes
C24_Witness ==
    /\ mode \in {"browse", "edit"}
    /\ zoomFactor = ScaleBy
    /\ cfg.height = 900
    /\ stagePos = IPt(-58, -28)


\* everything but the viewport, the emitted callback and the event counters
NonView == <<cfg, mode, placementType, snap, strokes, isDrawing, liveStroke,
             current, dragging, nextId, nAppended>>

\* C26: Reset view, from any reachable state, sets zoomFactor to 1 and
\* stagePosition to the offset of the map at base scale (0 on an axis the
\* map fills or overflows, half the free room on an axis it does not fill),
\* emits nothing and changes neither the mode nor the strokes, the live
\* stroke or a marker drag in progress.
C26_Reset ==
    [][ResetView =>
         /\ zoomFactor' = RInt(1)
         /\ stagePos'.x = RZero
         /\ stagePos'.y = IF cfg.height > cfg.width
                          THEN Rat(cfg.height - cfg.width, 2)
                          ELSE RZero
         /\ NonView' = NonView
         /\ emitted' = NoEmit]_vars

\* the view has been zoomed while a stroke was being captured and is back at
\* zoom 1 with the capture still open
C26_Witness ==
    /\ mode = "draw"
    /\ isDrawing
    /\ liveStroke # NoStroke
    /\ nWheel = 2
    /\ nEvents = MaxEvents
    /\ zoomFactor = RInt(1)
    /\ stagePos = IPt(0, 0)

\* C27: a wheel event, a pointerDown in any mode and a pointerMove whose
\* pointer position cannot be resolved leave zoomFactor, stagePosition, the
\* capture, the live stroke and the finalized strokes unchanged and emit no
\* callback.
C27_NoPointerNoOp ==
    [][(\/ \E dy \in DeltaYs : HandleWheel(NoPointer, dy)
        \/ \E t \in Targets : HandlePointerDownEvent(NoPointer, t)
        \/ HandlePointerMoveEvent(NoPointer))
       => /\ zoomFactor' = zoomFactor
          /\ stagePos' = stagePos
          /\ NonView' = NonView
          /\ emitted' = NoEmit]_vars

\* in draw mode with a capture open, a wheel event has been handled and the
\* view is where it was at mount
C27_Witness ==
    /\ mode = "draw"
    /\ isDrawing
    /\ nEvents = 3
    /\ nWheel = 1
    /\ zoomFactor = RInt(1)
    /\ stagePos = IPt(0, 0)

\* C28: a wheel event is handled in every mode and changes the viewport
\* only: with the pointer resolved and room below maxZoom a negative delta
\* multiplies zoomFactor by the step whatever the mode, and no wheel event
\* emits a callback or touches the mode, the capture, the live stroke, the
\* finalized strokes or a marker drag, also in the middle of a capture.
C28_WheelOnlyViewport ==
    [][\A p \in Pointers \cup {NoPointer}, dy \in DeltaYs :
         HandleWheel(p, dy) =>
           /\ emitted' = NoEmit
           /\ NonView' = NonView
           /\ (p # NoPointer /\ dy < 0
                 /\ RLe(RMul(zoomFactor, ScaleBy), cfg.maxZoom))
              => zoomFactor' = RMul(zoomFactor, ScaleBy)]_vars

\* a stroke started at screen (100, 100) at zoom 1 is still being captured
\* after a wheel event at screen (3, 0) has zoomed in
C28_Witness ==
    /\ mode = "draw"
    /\ isDrawing
    /\ liveStroke # NoStroke
    /\ liveStroke.points = <<Rat(400, 3), Rat(400, 3)>>
    /\ zoomFactor = ScaleBy
    /\ stagePos = Pt(Rat(-6, 25), RZero)


\* C30 (as claimed): a wheel event with a positive delta sets zoomFactor to
\* max(minZoom, zoomFactor / 1.08) and never increases it; one with a
\* negative delta sets it to min(maxZoom, zoomFactor * 1.08) and never
\* decreases it.
C30_WheelDirection ==
    [][\A p \in PointersView, dy \in DeltaYs :
         HandleWheel(p, dy) =>
           \A new \in {zoomFactor'} :
              /\ dy > 0 => /\ new = RMax(cfg.minZoom, RDiv(zoomFactor, ScaleBy))
                           /\ RLe(new, zoomFactor)
              /\ dy < 0 => /\ new = RMin(cfg.maxZoom, RMul(zoomFactor, ScaleBy))
                           /\ RLe(zoomFactor, new)]_vars


\* offset lies in the range valid, at the current zoomFactor, on an axis of
\* length size of a frame of the given width
ValidIn(offset, size, width) ==
    LET mapPixelSize == RMul(RInt(cfg.nativeSize),
                             RMul(Rat(width, cfg.nativeSize), zoomFactor))
        room == RSub(RInt(size), mapPixelSize)
    IN  IF RLe(RInt(size), mapPixelSize)
        THEN RLe(room, offset) /\ RLe(offset, RZero)
        ELSE RAdd(offset, offset) = room

\* C25 (as claimed): after a change of the display size, whatever the new
\* width and height and the current zoomFactor, stagePosition lies on both
\* axes inside the range valid for the scale baseScale * zoomFactor.
C25_ResizeInRange ==
    [][\A s \in Sizes :
         Resize(s[1], s[2]) =>
           \A pos \in {stagePos'} :
              /\ ValidIn(pos.x, s[1], s[1])
              /\ ValidIn(pos.y, s[2], s[1])]_vars


\* the image of the current mapImageUrl has been requested and is not the
\* one on display
Loading == BagIn(mapImageUrl, pending) /\ img # mapImageUrl

\* the image of the current mapImageUrl has failed to load
Failed == error = mapImageUrl

\* C29 (as claimed): while the background image is loading or has failed
\* to load the fallback message is shown, and a click inside the map is
\* placed in place mode whether or not an image is on display.
C29_FallbackWhileUnavailable ==
    /\ (Loading \/ Failed) => FallbackShown
    /\ \A p \in Pointers, t \in HitTargets :
          InBounds(ToNative(p)) => Places(p, t)


\* C31 (as claimed): a wheel event whose vertical scroll delta is zero
\* leaves zoomFactor and stagePosition unchanged.
C31_ZeroDeltaNoOp ==
    [][\A p \in PointersView :
         HandleWheel(p, 0) => zoomFactor' = zoomFactor /\ stagePos' = stagePos]_vars


\* C32: with stagePosition inside its clamp range, a zoom-in wheel event at
\* zoomFactor = maxZoom and a zoom-out wheel event at zoomFactor = minZoom
\* leave zoomFactor and stagePosition unchanged wherever the pointer is.
C32_NoOpAtLimit ==
    [][\A dy \in {-100, 100} :
         ((IF dy < 0 THEN zoomFactor = cfg.maxZoom ELSE zoomFactor = cfg.minZoom)
            /\ InRange(stagePos.x, cfg.width)
            /\ InRange(stagePos.y, cfg.height))
         => \A p \in PointersView :
               HandleWheel(p, dy) => zoomFactor' = zoomFactor /\ stagePos' = stagePos]_vars

\* at maxZoom on the tall frame, the map panned off the left edge, after
\* two wheel events
C32_Witness ==
    /\ cfg.maxZoom = <<21, 20>>
    /\ zoomFactor = cfg.maxZoom
    /\ nWheel = 2
    /\ RLt(stagePos.x, RZero)
    /\ InRange(stagePos.x, cfg.width)
    /\ InRange(stagePos.y, cfg.height)


\* C33 (as claimed): while the mode stays draw no stroke in progress is
\* lost: when the capture lets go of a stroke, also because a second
\* pointerDown arrives before any pointerUp, that stroke with its recorded
\* points is in the finalized collection.
C33_NoStrokeLost ==
    [][(/\ mode = "draw" /\ mode' = "draw"
        /\ current # NoStroke
        /\ (current' = NoStroke \/ current'.stroke.id # current.stroke.id))
       => \E i \in 1 .. Len(strokes') : strokes'[i] = current.stroke]_vars


\* every coordinate of a point sequence lies in [0, nativeSize]
WithinMap(points) ==
    \A i \in 1 .. Len(points) :
       RLe(RZero, points[i]) /\ RLe(points[i], RInt(cfg.nativeSize))

\* C34: every coordinate of the live stroke and of every finalized stroke,
\* smoothed points included, lies in [0, nativeSize], whatever pointer,
\* wheel, pan and reset events came before.
C34_PointsWithinMap ==
    /\ liveStroke # NoStroke => WithinMap(liveStroke.points)
    /\ current # NoStroke => WithinMap(current.stroke.points)
    /\ \A i \in 1 .. Len(strokes) : WithinMap(strokes[i].points)

\* zoomed in, a stroke has a smoothed second point
C34_Witness ==
    /\ mode = "draw"
    /\ zoomFactor = ScaleBy
    /\ liveStroke # NoStroke
    /\ Len(liveStroke.points) = 4
    /\ liveStroke.points[3] # liveStroke.points[1]


\* C39 (as claimed): a late onload or onerror of an Image created for a
\* URL that is no longer the current one changes neither img nor error, and
\* once every load has settled img and error tell the outcome of the
\* current mapImageUrl only.
C39_LateResultIgnored ==
    [][/\ \A u \in Urls \ {mapImageUrl} :
            (ImageLoad(u) \/ ImageError(u)) => img' = img /\ error' = error
       /\ pending' = EmptyBag =>
            \/ img' = mapImageUrl' /\ error' = NoError
            \/ img' = NoImage /\ error' = mapImageUrl']_vars


\* C35 (as claimed): when a saveDrawings call completes, the finalized
\* strokes stay as the user's latest local edit left them, also when that
\* edit (a finished stroke, an undo, a clear) came while the call was in
\* flight.
C35_SaveKeepsEdits ==
    [][\A i \in 1 .. Len(requests) :
         (requests[i].op = "upsert" /\ Return(i)) => strokes' = strokes]_vars


\* the moves of marker id that are in flight
MovesInFlight(id) ==
    {i \in 1 .. Len(requests) : requests[i].op = "update" /\ requests[i].id = id}

\* C36 (as claimed): once every move request of a marker has completed,
\* whatever the order of completion, the marker's position in the local
\* spot list is the position of the drag released last.
C36_LastMoveWins ==
    \A i \in 1 .. Len(spots) :
       (lastMove[spots[i].id] # NoMove /\ MovesInFlight(spots[i].id) = {})
         => spots[i].pos = lastMove[spots[i].id]


\* a delete of marker id has been carried out by the service
DeletedOnService(id) == id \in db.used /\ \A q \in db.spots : q.id # id

DeleteInFlight(id) ==
    \E j \in 1 .. Len(requests) :
       requests[j].op = "delete" /\ requests[j].id = id

\* C37 (as claimed): once a delete request for a marker has completed
\* successfully, the marker is not in the local spot list any more, whatever
\* completes afterwards.
C37_DeletedStaysGone ==
    \A i \in 1 .. Len(spots) :
       DeletedOnService(spots[i].id) => DeleteInFlight(spots[i].id)


\* a load call issued by an effect run that has been cleaned up, or for
\* another map key than the current one
Superseded(r) == IsLoad(r) /\ (~r.alive \/ r.map # map)

\* C38: the late answer of a superseded load writes neither spots, strokes,
\* error nor loading; only a load of the current map key sets them.
C38_SupersededLoadIgnored ==
    [][\A i \in 1 .. Len(requests) :
         (Superseded(requests[i]) /\ Return(i))
           => UNCHANGED <<spots, strokes, loading, dataError>>]_vars

\* the answer of a superseded load is about to reach the hook, carrying
\* rows that differ from the local list
C38_Witness ==
    \E i \in 1 .. Len(requests) :
       /\ Superseded(requests[i])
       /\ requests[i].phase = "answered"
       /\ requests[i].ok
       /\ requests[i].op = "selectSpots"
       /\ requests[i].rows # spots
       /\ loading


SpotOps == {"insert", "update", "delete"}

\* C40: when the persistence call of addSpot, updateSpot or deleteSpot
\* fails, the operation rejects with the error and the local spot list is
\* left as it was: no spot added, moved or removed.
C40_FailureLeavesSpots ==
    [][\A i \in 1 .. Len(requests) :
         (requests[i].op \in SpotOps /\ ~requests[i].ok /\ Return(i))
           => (spots' = spots /\ emitted' = Rejected(requests[i]))]_vars

\* a failed spot operation has just rejected
C40_Witness ==
    /\ emitted.cb = "rejected"
    /\ emitted.op \in SpotOps

=============================================================================
